---- MODULE Spec2Model ----
(***************************************************************************)
(* Model of the paper trading engine, src/src/paper_trading/engine.py:     *)
(* PaperTradingEngine with its PaperAccount, PaperOrder and PaperPosition. *)
(*                                                                         *)
(* Python floats are modelled as exact rationals <<n, d>> in lowest terms  *)
(* with d > 0; Optional[float] is a sequence of length 0 (None) or 1.      *)
(* datetime.now() is the reading of a clock that counts ticks; the         *)
(* Account's created_at and updated_at are kept, the timestamps of Orders, *)
(* Positions and trade records are left out.                               *)
(*                                                                         *)
(* The engine is synchronous: a call runs to its end before the next.      *)
(* place_order takes two steps, so that the Order _execute_order leaves    *)
(* behind is a state of its own: PlaceOrderExecute runs the call to the    *)
(* return (or the raise) of _execute_order, PlaceOrderReturn runs the rest *)
(* of the try block or the except branch.  No other call is enabled in     *)
(* between.                                                                *)
(*                                                                         *)
(* Spec is the engine under place_order and cancel_order with arguments of *)
(* every kind, invalid ones and log failures included.  SessionSpec is the *)
(* engine built with its defaults under a client that trades one symbol    *)
(* and reads the account back (get_account_summary, get_trade_history)     *)
(* while the clock moves.  LifecycleSpec is the same engine under a client *)
(* that leaves LIMIT and STOP orders resting and goes on placing orders,   *)
(* cancelling, reading the account and starting and stopping the engine.   *)
(*                                                                         *)
(* Spec, SessionSpec and LifecycleSpec take float arithmetic as exact.     *)
(* FloatSpec does not: the one division of the engine, the entry price of  *)
(* a Position that a fill adds to, returns the exact quotient plus         *)
(* round_off, an error of at most one unit in the last place, for MARKET   *)
(* orders whose quantities are tenths.                                     *)
(*                                                                         *)
(* ConcurrentSpec gives up the synchronous caller: MaxThreads callers are  *)
(* inside place_order at once, and the calls advance in steps cut at the   *)
(* loads and stores of order_counter, balance and total_trades.            *)
(***************************************************************************)
EXTENDS Integers, Sequences, FiniteSets, TLC

\* ------------------------------------------------------------ bounds
\* place_order calls in one behaviour (caps order_counter).
MaxOrders == 2
\* failed appends to the trade log in one behaviour
MaxLogFailures == 1
\* ticks of the clock in one behaviour
MaxTicks == 1

\* place_order calls in one behaviour of FloatSpec: two fills that build a
\* Position and one that closes it.
MaxFloatOrders == 3

\* callers inside place_order at once in ConcurrentSpec, one call each.
MaxThreads == 2

\* ------------------------------------------------------------ rationals
Abs(i) == IF i < 0 THEN -i ELSE i

RECURSIVE GCD(_, _)
GCD(a, b) == IF b = 0 THEN a ELSE GCD(b, a % b)

Norm(n, d) ==
    LET s == IF d < 0 THEN -1 ELSE 1
        g == GCD(Abs(n), Abs(d))
    IN  <<(s * n) \div g, (s * d) \div g>>

R(i) == <<i, 1>>
Zero == R(0)
IsZero(a) == a[1] = 0
RAdd(a, b) ==
    LET g == GCD(a[2], b[2])
        l == (a[2] \div g) * b[2]
    IN  Norm(a[1] * (l \div a[2]) + b[1] * (l \div b[2]), l)
RNeg(a) == <<-a[1], a[2]>>
RSub(a, b) == RAdd(a, RNeg(b))
RMul(a, b) ==
    LET x == Norm(a[1], b[2])
        y == Norm(b[1], a[2])
    IN  Norm(x[1] * y[1], x[2] * y[2])
\* the exact quotient; the caller checks IsZero(b) first (ZeroDivisionError).
RDiv(a, b) == RMul(a, Norm(b[2], b[1]))
\* compared over the least common denominator
RLt(a, b) == RSub(a, b)[1] < 0
RLe(a, b) == RSub(a, b)[1] <= 0
RGt(a, b) == RLt(b, a)
RGe(a, b) == RLe(b, a)
RMax(a, b) == IF RLt(a, b) THEN b ELSE a

\* ------------------------------------------------------------ enumerations
BUY == "buy"
SELL == "sell"
MARKET == "market"
LIMIT == "limit"
STOP == "stop"
\* an order_type that is none of the three OrderType members: a member of
\* another Enum (it has a .value), or a plain string (it has none)
UNKNOWN_ENUM == "unknown_enum"
UNKNOWN_STR == "unknown_str"
PENDING == "pending"
FILLED == "filled"
CANCELLED == "cancelled"
REJECTED == "rejected"

\* Optional[float]
None == <<>>
Some(x) == <<x>>

\* exceptions, by kind; str(e) is modelled as the kind
NoExc == ""
TypeError == "TypeError"
ZeroDivisionError == "ZeroDivisionError"
OSError == "OSError"
AttributeError == "AttributeError"

Last(s) == s[Len(s)]

\* a dict with no keys
EmptyDict == [k \in {} |-> {}]

\* ------------------------------------------------------------ inputs
Symbols == {"ETHUSDT", "XYZUSDT"}

\* base_prices.get(symbol, 100.0)
BasePrice(symbol) ==
    IF symbol = "BTCUSDT" THEN R(50000)
    ELSE IF symbol = "ETHUSDT" THEN R(3000)
    ELSE IF symbol = "ADAUSDT" THEN Norm(1, 2)
    ELSE IF symbol = "DOTUSDT" THEN R(20)
    ELSE R(100)

\* np.random.uniform(-0.02, 0.02): the two ends of the +-2% band
Variations == {Norm(-2, 100), Norm(2, 100)}

\* constructor arguments (defaults 10000.0 and 0.001)
InitialBalances == {R(10000)}
CommissionRates == {Zero, Norm(1, 1000)}

\* ------------------------------------------------------------ state
VARIABLES
    initial_balance,   \* self.initial_balance
    commission_rate,   \* self.commission_rate
    account,           \* self.account (PaperAccount)
    order_counter,     \* self.order_counter
    is_running,        \* self.is_running
    price_cache,       \* self.price_cache: symbol -> Optional[float]
    log_file,          \* lines appended to logs/paper_trading.jsonl
    now,               \* datetime.now(), in ticks
    pc,                \* "idle", or "try" inside place_order's try block
    order,             \* place_order's local PaperOrder while pc = "try"
    raised,            \* exception raised by _execute_order, if any
    ret,               \* the last call: [op, args, val]
    round_off,         \* rounding error of the float division in _update_position
    threads            \* callers inside place_order at once: thread -> its locals

vars == <<initial_balance, commission_rate, account, order_counter, is_running,
          price_cache, log_file, now, pc, order, raised, ret, round_off, threads>>

\* One unit in the last place of a price, at the model's scale.  A float
\* near 100 has neighbours 2^-46 away; only the sign of an error of that
\* size is read, by the comparisons with 0 that count wins and losses.
Ulp == Norm(1, 1000)

\* the rounding errors float division can make: the quotient is the float
\* nearest to the exact one, computed from operands already rounded
RoundOffs == {RNeg(Ulp), Zero, Ulp}

\* Python's float / float as _update_position uses it for the entry price
FloatDiv(a, b) == RAdd(RDiv(a, b), round_off)

\* ------------------------------------------------------------ helpers
\* f"PAPER_{n:06d}": the digits of n, left-padded with 0 to six places
RECURSIVE Digits(_)
Digits(n) == IF n < 10 THEN <<n>> ELSE Append(Digits(n \div 10), n % 10)

RECURSIVE PadLeft(_, _)
PadLeft(s, w) == IF Len(s) >= w THEN s ELSE PadLeft(<<0>> \o s, w)

\* (mutant) the number wraps round
FormatOrderId_Wraps(n) == <<"PAPER_">> \o PadLeft(Digits(n % 2), 6)

FormatOrderId(n) == <<"PAPER_">> \o PadLeft(Digits(n), 6)

\* Python truthiness of an Optional[float]: None and 0.0 are falsy
Truthy(opt) == opt # None /\ ~IsZero(opt[1])

RECURSIVE SumUnrealized(_, _)
SumUnrealized(positions, syms) ==
    IF syms = {} THEN Zero
    ELSE LET s == CHOOSE x \in syms : TRUE
         IN  RAdd(positions[s].unrealized_pnl, SumUnrealized(positions, syms \ {s}))

\* ------------------------------------------------------------ engine
CreateInitialAccount(initial, clock) ==
    [ balance        |-> initial,
      equity         |-> initial,
      margin_used    |-> Zero,
      free_margin    |-> initial,
      positions      |-> EmptyDict,
      orders         |-> <<>>,
      trade_history  |-> <<>>,
      total_trades   |-> 0,
      winning_trades |-> 0,
      losing_trades  |-> 0,
      total_pnl      |-> Zero,
      max_drawdown   |-> Zero,
      created_at     |-> clock,
      updated_at     |-> clock ]

\* (mutant) a price sampled anew at every request
CurrentPrices_Resamples(cache, symbol) ==
    {RMul(BasePrice(symbol), RAdd(R(1), v)) : v \in Variations}

\* The values _get_current_price may return for symbol: the cached one,
\* or on a first request any base_price * (1 + variation).
CurrentPrices(cache, symbol) ==
    IF cache[symbol] # None THEN {cache[symbol][1]}
    ELSE {RMul(BasePrice(symbol), RAdd(R(1), v)) : v \in Variations}

CalculateCommission(quantity, price) ==
    RMul(RMul(quantity, price), commission_rate)

\* (mutant) a short valued as a long
CalculateRealizedPnl_LongOnly(position, exit_price, quantity) ==
    RMul(RSub(exit_price, position.entry_price), quantity)

CalculateRealizedPnl(position, exit_price, quantity) ==
    IF position.side = BUY
    THEN RMul(RSub(exit_price, position.entry_price), quantity)
    ELSE RMul(RSub(position.entry_price, exit_price), quantity)

\* (mutant) every Position valued as a long
UnrealizedPnl_LongOnly(position, current_price) ==
    RMul(RSub(current_price, position.entry_price), position.quantity)

UnrealizedPnl(position, current_price) ==
    IF position.side = BUY
    THEN RMul(RSub(current_price, position.entry_price), position.quantity)
    ELSE RMul(RSub(position.entry_price, current_price), position.quantity)

\* (mutant) max_drawdown follows the current drawdown
UpdateAccountEquity_CurrentDrawdown(acct, cache) ==
    LET positions == [s \in DOMAIN acct.positions |->
                        [acct.positions[s] EXCEPT
                           !.current_price = cache[s][1],
                           !.unrealized_pnl = UnrealizedPnl(acct.positions[s], cache[s][1])]]
        equity == RAdd(acct.balance, SumUnrealized(positions, DOMAIN positions))
        drawdown == RDiv(RSub(initial_balance, equity), initial_balance)
    IN  [acct EXCEPT
           !.positions = positions,
           !.equity = equity,
           !.max_drawdown = IF RLt(equity, initial_balance) THEN drawdown ELSE Zero,
           !.updated_at = now]

\* the signed market value of the Positions
RECURSIVE SumMarketValue(_, _)
SumMarketValue(positions, syms) ==
    IF syms = {} THEN Zero
    ELSE LET s == CHOOSE x \in syms : TRUE
             value == RMul(positions[s].quantity, positions[s].current_price)
         IN  RAdd(IF positions[s].side = BUY THEN value ELSE RNeg(value),
                  SumMarketValue(positions, syms \ {s}))

\* (mutant) equity counts the value of the held Positions
UpdateAccountEquity_CountsHoldings(acct, cache) ==
    LET positions == [s \in DOMAIN acct.positions |->
                        [acct.positions[s] EXCEPT
                           !.current_price = cache[s][1],
                           !.unrealized_pnl = UnrealizedPnl(acct.positions[s], cache[s][1])]]
        equity == RAdd(acct.balance, SumMarketValue(positions, DOMAIN positions))
        drawdown == RDiv(RSub(initial_balance, equity), initial_balance)
    IN  [acct EXCEPT
           !.positions = positions,
           !.equity = equity,
           !.max_drawdown = IF RLt(equity, initial_balance)
                            THEN RMax(acct.max_drawdown, drawdown)
                            ELSE acct.max_drawdown,
           !.updated_at = now]

\* _update_account_equity; every symbol with a Position is already cached
UpdateAccountEquity(acct, cache) ==
    LET positions == [s \in DOMAIN acct.positions |->
                        [acct.positions[s] EXCEPT
                           !.current_price = cache[s][1],
                           !.unrealized_pnl = UnrealizedPnl(acct.positions[s], cache[s][1])]]
        equity == RAdd(acct.balance, SumUnrealized(positions, DOMAIN positions))
        drawdown == RDiv(RSub(initial_balance, equity), initial_balance)
    IN  [acct EXCEPT
           !.positions = positions,
           !.equity = equity,
           !.max_drawdown = IF RLt(equity, initial_balance)
                            THEN RMax(acct.max_drawdown, drawdown)
                            ELSE acct.max_drawdown,
           !.updated_at = now]

NewPosition(side, quantity, fill_price) ==
    [ side           |-> side,
      quantity       |-> quantity,
      entry_price    |-> fill_price,
      current_price  |-> fill_price,
      unrealized_pnl |-> Zero,
      realized_pnl   |-> Zero ]

RemoveKey(f, k) == [s \in DOMAIN f \ {k} |-> f[s]]

\* (mutant) the comparison turned round
CountTrade_Inverted(acct, realized_pnl) ==
    IF RLt(realized_pnl, Zero)
    THEN [acct EXCEPT !.winning_trades = @ + 1]
    ELSE [acct EXCEPT !.losing_trades = @ + 1]

\* the win/loss count of a closing fill
CountTrade(acct, realized_pnl) ==
    IF RGt(realized_pnl, Zero)
    THEN [acct EXCEPT !.winning_trades = @ + 1]
    ELSE [acct EXCEPT !.losing_trades = @ + 1]

\* (mutant) position.quantity assigned before the division that raises
AddToPosition_MutatesBeforeRaise(acct, o, fill_price) ==
    LET position == acct.positions[o.symbol]
        total_quantity == RAdd(position.quantity, o.quantity)
        total_cost == RAdd(RMul(position.quantity, position.entry_price),
                           RMul(o.quantity, fill_price))
    IN  IF IsZero(total_quantity)
        THEN [raised |-> ZeroDivisionError,
              account |-> [acct EXCEPT !.positions[o.symbol].quantity = total_quantity]]
        ELSE [raised |-> NoExc,
              account |-> [acct EXCEPT !.positions[o.symbol] =
                              [position EXCEPT !.entry_price = RDiv(total_cost, total_quantity),
                                               !.quantity = total_quantity]]]

\* (mutant) the entry price averaged without the quantities as weights
AddToPosition_PlainAverage(acct, o, fill_price) ==
    LET position == acct.positions[o.symbol]
        total_quantity == RAdd(position.quantity, o.quantity)
    IN  IF IsZero(total_quantity)
        THEN [raised |-> ZeroDivisionError, account |-> acct]
        ELSE [raised |-> NoExc,
              account |-> [acct EXCEPT !.positions[o.symbol] =
                              [position EXCEPT
                                 !.entry_price = RDiv(RAdd(position.entry_price, fill_price), R(2)),
                                 !.quantity = total_quantity]]]

\* a fill on the side of the existing Position
AddToPosition(acct, o, fill_price) ==
    LET position == acct.positions[o.symbol]
        total_quantity == RAdd(position.quantity, o.quantity)
        total_cost == RAdd(RMul(position.quantity, position.entry_price),
                           RMul(o.quantity, fill_price))
    IN  IF IsZero(total_quantity)
        THEN [raised |-> ZeroDivisionError, account |-> acct]
        ELSE [raised |-> NoExc,
              account |-> [acct EXCEPT !.positions[o.symbol] =
                              [position EXCEPT !.entry_price = FloatDiv(total_cost, total_quantity),
                                               !.quantity = total_quantity]]]

\* (mutant) remaining_quantity >= 0 re-opens a Position of quantity 0
ClosePosition_KeepsZero(acct, o, fill_price) ==
    LET position == acct.positions[o.symbol]
        realized_pnl == CalculateRealizedPnl(position, fill_price, position.quantity)
        counted == CountTrade([acct EXCEPT !.total_pnl = RAdd(@, realized_pnl)], realized_pnl)
        remaining_quantity == RSub(o.quantity, position.quantity)
        deleted == RemoveKey(acct.positions, o.symbol)
    IN  [counted EXCEPT !.positions =
            IF RGe(remaining_quantity, Zero)
            THEN (o.symbol :> NewPosition(o.side, remaining_quantity, fill_price)) @@ deleted
            ELSE deleted]

\* (mutant) a close that never opens the remainder on the other side
ClosePosition_DropsRemainder(acct, o, fill_price) ==
    LET position == acct.positions[o.symbol]
        realized_pnl == CalculateRealizedPnl(position, fill_price, position.quantity)
        counted == CountTrade([acct EXCEPT !.total_pnl = RAdd(@, realized_pnl)], realized_pnl)
    IN  [counted EXCEPT !.positions = RemoveKey(acct.positions, o.symbol)]

\* (mutant) PnL realized over the order's quantity, not the Position's
ClosePosition_PnlOverOrderQuantity(acct, o, fill_price) ==
    LET position == acct.positions[o.symbol]
        realized_pnl == CalculateRealizedPnl(position, fill_price, o.quantity)
        counted == CountTrade([acct EXCEPT !.total_pnl = RAdd(@, realized_pnl)], realized_pnl)
        remaining_quantity == RSub(o.quantity, position.quantity)
        deleted == RemoveKey(acct.positions, o.symbol)
    IN  [counted EXCEPT !.positions =
            IF RGt(remaining_quantity, Zero)
            THEN (o.symbol :> NewPosition(o.side, remaining_quantity, fill_price)) @@ deleted
            ELSE deleted]

\* order.quantity >= position.quantity: close the Position, open the remainder
ClosePosition(acct, o, fill_price) ==
    LET position == acct.positions[o.symbol]
        realized_pnl == CalculateRealizedPnl(position, fill_price, position.quantity)
        counted == CountTrade([acct EXCEPT !.total_pnl = RAdd(@, realized_pnl)], realized_pnl)
        remaining_quantity == RSub(o.quantity, position.quantity)
        deleted == RemoveKey(acct.positions, o.symbol)
    IN  [counted EXCEPT !.positions =
            IF RGt(remaining_quantity, Zero)
            THEN (o.symbol :> NewPosition(o.side, remaining_quantity, fill_price)) @@ deleted
            ELSE deleted]

\* (mutant) a partial close that re-bases the remainder at the fill price
ReducePosition_MovesEntryPrice(acct, o, fill_price) ==
    LET position == acct.positions[o.symbol]
        realized_pnl == CalculateRealizedPnl(position, fill_price, o.quantity)
        counted == CountTrade([acct EXCEPT !.total_pnl = RAdd(@, realized_pnl)], realized_pnl)
    IN  [counted EXCEPT !.positions[o.symbol] =
            [position EXCEPT !.realized_pnl = RAdd(@, realized_pnl),
                             !.entry_price = fill_price,
                             !.quantity = RSub(@, o.quantity)]]

\* order.quantity < position.quantity: partial close
ReducePosition(acct, o, fill_price) ==
    LET position == acct.positions[o.symbol]
        realized_pnl == CalculateRealizedPnl(position, fill_price, o.quantity)
        counted == CountTrade([acct EXCEPT !.total_pnl = RAdd(@, realized_pnl)], realized_pnl)
    IN  [counted EXCEPT !.positions[o.symbol] =
            [position EXCEPT !.realized_pnl = RAdd(@, realized_pnl),
                             !.quantity = RSub(@, o.quantity)]]

\* _update_position: [raised, account]
UpdatePosition(acct, o, fill_price) ==
    IF o.symbol \notin DOMAIN acct.positions
    THEN [raised |-> NoExc,
          account |-> [acct EXCEPT !.positions =
                          (o.symbol :> NewPosition(o.side, o.quantity, fill_price)) @@ @]]
    ELSE IF acct.positions[o.symbol].side = o.side
    THEN AddToPosition(acct, o, fill_price)
    ELSE IF RGe(o.quantity, acct.positions[o.symbol].quantity)
    THEN [raised |-> NoExc, account |-> ClosePosition(acct, o, fill_price)]
    ELSE [raised |-> NoExc, account |-> ReducePosition(acct, o, fill_price)]

\* (mutant) the SELL branch adds the commission to the proceeds
UpdateBalance_SellAddsCommission(acct, o, fill_price, commission) ==
    IF o.side = BUY
    THEN [acct EXCEPT !.balance = RSub(@, RAdd(RMul(o.quantity, fill_price), commission))]
    ELSE [acct EXCEPT !.balance = RAdd(@, RAdd(RMul(o.quantity, fill_price), commission))]

\* the cash movement of a fill
UpdateBalance(acct, o, fill_price, commission) ==
    IF o.side = BUY
    THEN [acct EXCEPT !.balance = RSub(@, RAdd(RMul(o.quantity, fill_price), commission))]
    ELSE [acct EXCEPT !.balance = RAdd(@, RSub(RMul(o.quantity, fill_price), commission))]

TradeRecord(o, fill_price, commission) ==
    [ order_id   |-> o.id,
      symbol     |-> o.symbol,
      side       |-> o.side,
      quantity   |-> o.quantity,
      price      |-> fill_price,
      commission |-> commission,
      pnl        |-> Zero ]

\* (mutant) a BUY the balance does not cover is refused
FillOrder_ChecksFunds(acct, o, fill_price, cache) ==
    LET commission == CalculateCommission(o.quantity, fill_price)
        cost == RAdd(RMul(o.quantity, fill_price), commission)
        filled == [o EXCEPT !.commission = commission,
                            !.status = FILLED,
                            !.filled_price = Some(fill_price),
                            !.filled_quantity = Some(o.quantity)]
        updated == UpdatePosition(acct, filled, fill_price)
        paid == UpdateBalance(updated.account, filled, fill_price, commission)
        recorded == [paid EXCEPT
                       !.trade_history = Append(@, TradeRecord(filled, fill_price, commission)),
                       !.total_trades = @ + 1]
    IN  IF o.side = BUY /\ RGt(cost, acct.balance)
        THEN [raised |-> "InsufficientFunds", account |-> acct, order |-> o]
        ELSE IF updated.raised # NoExc
        THEN [raised |-> updated.raised, account |-> updated.account, order |-> filled]
        ELSE [raised |-> NoExc,
              account |-> UpdateAccountEquity(recorded, cache),
              order |-> filled]

\* (mutant) total_trades counts the fills that close, not every fill
FillOrder_CountsCloses(acct, o, fill_price, cache) ==
    LET commission == CalculateCommission(o.quantity, fill_price)
        filled == [o EXCEPT !.commission = commission,
                            !.status = FILLED,
                            !.filled_price = Some(fill_price),
                            !.filled_quantity = Some(o.quantity)]
        closes == /\ o.symbol \in DOMAIN acct.positions
                  /\ acct.positions[o.symbol].side # o.side
        updated == UpdatePosition(acct, filled, fill_price)
        paid == UpdateBalance(updated.account, filled, fill_price, commission)
        recorded == [paid EXCEPT
                       !.trade_history = Append(@, TradeRecord(filled, fill_price, commission)),
                       !.total_trades = IF closes THEN @ + 1 ELSE @]
    IN  IF updated.raised # NoExc
        THEN [raised |-> updated.raised, account |-> updated.account, order |-> filled]
        ELSE [raised |-> NoExc,
              account |-> UpdateAccountEquity(recorded, cache),
              order |-> filled]

\* _fill_order: [raised, account, order]
FillOrder(acct, o, fill_price, cache) ==
    LET commission == CalculateCommission(o.quantity, fill_price)
        filled == [o EXCEPT !.commission = commission,
                            !.status = FILLED,
                            !.filled_price = Some(fill_price),
                            !.filled_quantity = Some(o.quantity)]
        updated == UpdatePosition(acct, filled, fill_price)
        paid == UpdateBalance(updated.account, filled, fill_price, commission)
        recorded == [paid EXCEPT
                       !.trade_history = Append(@, TradeRecord(filled, fill_price, commission)),
                       !.total_trades = @ + 1]
    IN  IF updated.raised # NoExc
        THEN \* nothing undoes what _update_position did before it raised
             [raised |-> updated.raised, account |-> updated.account, order |-> filled]
        ELSE [raised |-> NoExc,
              account |-> UpdateAccountEquity(recorded, cache),
              order |-> filled]

\* whether a LIMIT / STOP order crosses at current_price
LimitCrosses(o, current_price) ==
    \/ o.side = BUY /\ RLe(current_price, o.price[1])
    \/ o.side = SELL /\ RGe(current_price, o.price[1])

StopCrosses(o, current_price) ==
    \/ o.side = BUY /\ RGe(current_price, o.stop_price[1])
    \/ o.side = SELL /\ RLe(current_price, o.stop_price[1])

\* _execute_order: [raised, account, order]
ExecuteOrder(acct, o, current_price, cache) ==
    IF o.order_type = MARKET
    THEN FillOrder(acct, o, current_price, cache)
    ELSE IF o.order_type = LIMIT
    THEN IF LimitCrosses(o, current_price)
         THEN FillOrder(acct, o, o.price[1], cache)
         ELSE [raised |-> NoExc, account |-> acct, order |-> [o EXCEPT !.status = PENDING]]
    ELSE IF o.order_type = STOP
    THEN IF o.stop_price = None
         THEN \* current_price >= None
              [raised |-> TypeError, account |-> acct, order |-> o]
         ELSE IF StopCrosses(o, current_price)
         THEN FillOrder(acct, o, current_price, cache)
         ELSE [raised |-> NoExc, account |-> acct, order |-> [o EXCEPT !.status = PENDING]]
    ELSE [raised |-> NoExc, account |-> acct, order |-> o]

\* place_order's choice of the order's price
OrderPrice(order_type, price, stop_price, current_price) ==
    IF order_type = MARKET THEN current_price
    ELSE IF order_type = LIMIT
    THEN (IF Truthy(price) THEN price[1] ELSE current_price)
    ELSE IF order_type = STOP
    THEN (IF Truthy(stop_price) THEN stop_price[1] ELSE current_price)
    ELSE current_price

NewOrder(order_id, a, order_price) ==
    [ id              |-> order_id,
      symbol          |-> a.symbol,
      side            |-> a.side,
      order_type      |-> a.order_type,
      quantity        |-> a.quantity,
      price           |-> Some(order_price),
      stop_price      |-> a.stop_price,
      status          |-> PENDING,
      filled_price    |-> None,
      filled_quantity |-> None,
      commission      |-> Zero,
      notes           |-> "" ]

\* _log_order's log_entry
LogEntry(o) ==
    [ order_id        |-> o.id,
      symbol          |-> o.symbol,
      side            |-> o.side,
      order_type      |-> o.order_type,
      quantity        |-> o.quantity,
      price           |-> o.price,
      status          |-> o.status,
      filled_price    |-> o.filled_price,
      filled_quantity |-> o.filled_quantity,
      commission      |-> o.commission,
      notes           |-> o.notes ]

Reject(o, e) == [o EXCEPT !.status = REJECTED, !.notes = e]

\* ------------------------------------------------------------ calls
\* The engine validates no argument, so callers may pass any quantity.
\* MARKET orders are tried with each of these, the other types with one unit.
Quantities == {R(-1), R(0), R(1), R(2)}

\* a LIMIT price / STOP trigger at the symbol's baseline, or left out
PriceArgs(symbol) == {None, Some(BasePrice(symbol))}

Args(sym, side, type, q, p, sp) ==
    [symbol |-> sym, side |-> side, order_type |-> type, quantity |-> q,
     price |-> p, stop_price |-> sp]

\* every kind of order, on the fallback-priced symbol
MainSymbol == "XYZUSDT"

PlaceOrderArgs ==
    { Args(MainSymbol, side, MARKET, q, None, None)
        : side \in {BUY, SELL}, q \in Quantities }
    \cup { Args(MainSymbol, side, LIMIT, R(1), p, None)
        : side \in {BUY, SELL}, p \in PriceArgs(MainSymbol) }
    \cup { Args(MainSymbol, side, STOP, R(1), None, sp)
        : side \in {BUY, SELL}, sp \in PriceArgs(MainSymbol) }
    \cup { Args(MainSymbol, BUY, type, R(1), None, None)
        : type \in {UNKNOWN_ENUM, UNKNOWN_STR} }
    \cup { Args(sym, side, MARKET, R(1), None, None)
        : sym \in Symbols \ {MainSymbol}, side \in {BUY, SELL} }

\* cancel_order is called with the first id: unknown until issued and when
\* the order was rejected by an exception, else PENDING, FILLED, REJECTED
\* or CANCELLED
CancelIds == {FormatOrderId(1)}

NoOrder == <<>>

\* no caller is inside place_order while another is
NoThreads == <<>>

Init ==
    /\ initial_balance \in InitialBalances
    /\ commission_rate \in CommissionRates
    /\ now = 0
    /\ account = CreateInitialAccount(initial_balance, now)
    /\ order_counter = 0
    /\ is_running = FALSE
    /\ price_cache = [s \in Symbols |-> None]
    /\ log_file = <<>>
    /\ pc = "idle"
    /\ order = NoOrder
    /\ raised = NoExc
    /\ ret = [op |-> "init", args |-> <<>>, val |-> <<>>]
    /\ round_off = Zero
    /\ threads = NoThreads

LogFailures(orders) == Cardinality({i \in DOMAIN orders : orders[i].notes = OSError})

\* place_order up to the return (or the raise) of _execute_order
PlaceOrderCall(a) ==
    /\ pc = "idle"
    /\ order_counter' = order_counter + 1
    /\ \E current_price \in CurrentPrices(price_cache, a.symbol) :
         LET cache == [price_cache EXCEPT ![a.symbol] = Some(current_price)]
             o == NewOrder(FormatOrderId(order_counter + 1), a,
                           OrderPrice(a.order_type, a.price, a.stop_price, current_price))
         IN  \E done \in {ExecuteOrder(account, o, current_price, cache)} :
             /\ price_cache' = cache
             /\ account' = done.account
             /\ order' = done.order
             /\ raised' = done.raised
    /\ pc' = "try"
    /\ ret' = [op |-> "place_order", args |-> a, val |-> <<>>]
    /\ UNCHANGED <<initial_balance, commission_rate, is_running, round_off, threads,
                   log_file, now>>

\* at most MaxOrders calls in one behaviour
PlaceOrderExecute(a) ==
    /\ order_counter < MaxOrders
    /\ PlaceOrderCall(a)

\* the rest of the try block (append, _log_order), or the except branch
PlaceOrderReturn(log_ok) ==
    /\ pc = "try"
    /\ IF raised # NoExc
       THEN /\ log_ok
            /\ ret' = [ret EXCEPT !.val = <<Reject(order, raised)>>]
            /\ UNCHANGED <<account, log_file>>
       ELSE IF order.order_type = UNKNOWN_STR
       THEN \* _log_order: order.order_type.value
            /\ log_ok
            /\ account' = [account EXCEPT !.orders = Append(@, Reject(order, AttributeError))]
            /\ ret' = [ret EXCEPT !.val = <<Reject(order, AttributeError)>>]
            /\ UNCHANGED log_file
       ELSE IF log_ok
       THEN /\ account' = [account EXCEPT !.orders = Append(@, order)]
            /\ log_file' = Append(log_file, LogEntry(order))
            /\ ret' = [ret EXCEPT !.val = <<order>>]
       ELSE \* open() or write() raises: the appended order is the one rejected
            /\ LogFailures(account.orders) < MaxLogFailures
            /\ account' = [account EXCEPT !.orders = Append(@, Reject(order, OSError))]
            /\ ret' = [ret EXCEPT !.val = <<Reject(order, OSError)>>]
            /\ UNCHANGED log_file
    /\ pc' = "idle"
    /\ order' = NoOrder
    /\ raised' = NoExc
    /\ UNCHANGED <<initial_balance, commission_rate, is_running, round_off, threads,
                   order_counter, price_cache, now>>

\* (mutant) the loop matches the id alone
CancelIndex_AnyStatus(orders, order_id) ==
    LET hits == {i \in DOMAIN orders : orders[i].id = order_id}
    IN  IF hits = {} THEN 0 ELSE CHOOSE i \in hits : \A j \in hits : i <= j

\* (mutant) the loop stops at the first PENDING order, whatever its id
CancelIndex_FirstPending(orders, order_id) ==
    LET hits == {i \in DOMAIN orders : orders[i].status = PENDING}
    IN  IF hits = {} THEN 0 ELSE CHOOSE i \in hits : \A j \in hits : i <= j

\* the index cancel_order's loop stops at, or 0
CancelIndex(orders, order_id) ==
    LET hits == {i \in DOMAIN orders : orders[i].id = order_id /\ orders[i].status = PENDING}
    IN  IF hits = {} THEN 0 ELSE CHOOSE i \in hits : \A j \in hits : i <= j

CancelOrder(order_id) ==
    /\ pc = "idle"
    /\ LET i == CancelIndex(account.orders, order_id)
       IN  IF i # 0
           THEN /\ account' = [account EXCEPT !.orders[i].status = CANCELLED]
                /\ ret' = [op |-> "cancel_order", args |-> order_id, val |-> TRUE]
           ELSE /\ UNCHANGED account
                /\ ret' = [op |-> "cancel_order", args |-> order_id, val |-> FALSE]
    /\ UNCHANGED <<initial_balance, commission_rate, is_running, round_off, threads,
                   order_counter, price_cache,
                   log_file, now, pc, order, raised>>

Next ==
    \/ \E a \in PlaceOrderArgs : PlaceOrderExecute(a)
    \/ \E log_ok \in BOOLEAN : PlaceOrderReturn(log_ok)
    \/ \E order_id \in CancelIds : CancelOrder(order_id)

Spec == Init /\ [][Next]_vars

\* ------------------------------------------------------------ queries
\* the account summary: a dict of the Account's fields and two ratios
Summary(acct) ==
    [ balance        |-> acct.balance,
      equity         |-> acct.equity,
      margin_used    |-> acct.margin_used,
      free_margin    |-> acct.free_margin,
      total_trades   |-> acct.total_trades,
      winning_trades |-> acct.winning_trades,
      losing_trades  |-> acct.losing_trades,
      win_rate       |-> IF acct.total_trades > 0
                         THEN Norm(acct.winning_trades, acct.total_trades)
                         ELSE Zero,
      total_pnl      |-> acct.total_pnl,
      max_drawdown   |-> acct.max_drawdown,
      return_pct     |-> RDiv(RSub(acct.equity, initial_balance), initial_balance),
      positions      |-> acct.positions,
      open_orders    |-> SelectSeq(acct.orders, LAMBDA o : o.status = PENDING),
      created_at     |-> acct.created_at,
      updated_at     |-> acct.updated_at ]

GetAccountSummary ==
    /\ pc = "idle"
    /\ \E updated \in {UpdateAccountEquity(account, price_cache)} :
         /\ account' = updated
         /\ ret' = [op |-> "get_account_summary", args |-> <<>>, val |-> <<Summary(updated)>>]
    /\ UNCHANGED <<initial_balance, commission_rate, is_running, round_off, threads,
                   order_counter, price_cache,
                   log_file, now, pc, order, raised>>

\* Python's s[start:]: a negative start counts from the end, and both ends
\* are clipped to the list
SliceFrom(s, start) ==
    LET from == IF start < 0
                THEN (IF Len(s) + start < 0 THEN 0 ELSE Len(s) + start)
                ELSE (IF start > Len(s) THEN Len(s) ELSE start)
    IN  SubSeq(s, from + 1, Len(s))

\* limits a caller passes: against a history of 0, 1 or 2 records they are
\* below, at and above its length
Limits == {0, 1}

GetTradeHistory(limit) ==
    /\ pc = "idle"
    /\ ret' = [op |-> "get_trade_history", args |-> limit,
               val |-> SliceFrom(account.trade_history, -limit)]
    /\ UNCHANGED <<initial_balance, commission_rate, is_running, round_off, threads,
                   account, order_counter,
                   price_cache, log_file, now, pc, order, raised>>

\* time passes between two calls
Tick ==
    /\ pc = "idle"
    /\ now < MaxTicks
    /\ now' = now + 1
    /\ UNCHANGED <<initial_balance, commission_rate, is_running, round_off, threads,
                   account, order_counter,
                   price_cache, log_file, pc, order, raised, ret>>

\* start / stop: the flag, and a line in the application log
Start ==
    /\ pc = "idle"
    /\ is_running' = TRUE
    /\ ret' = [op |-> "start", args |-> <<>>, val |-> <<>>]
    /\ UNCHANGED <<initial_balance, commission_rate, round_off, threads, account,
                   order_counter, price_cache, log_file, now, pc, order, raised>>

Stop ==
    /\ pc = "idle"
    /\ is_running' = FALSE
    /\ ret' = [op |-> "stop", args |-> <<>>, val |-> <<>>]
    /\ UNCHANGED <<initial_balance, commission_rate, round_off, threads, account,
                   order_counter, price_cache, log_file, now, pc, order, raised>>

\* ------------------------------------------------------------ a session
\* A client that trades one symbol and reads the account back: orders of
\* each type with valid arguments (a quantity > 0, the price its type needs),
\* among them a BUY that costs more than the balance and LIMIT orders at
\* price 0, and a STOP order without its stop price.
LargeQuantity == R(200)

SessionOrderArgs ==
    { Args(MainSymbol, BUY, MARKET, q, None, None) : q \in {R(1), LargeQuantity} }
    \cup { Args(MainSymbol, SELL, MARKET, R(1), None, None) }
    \cup { Args(MainSymbol, side, LIMIT, R(1), Some(p), None)
        : side \in {BUY, SELL}, p \in {Zero, BasePrice(MainSymbol)} }
    \cup { Args(MainSymbol, side, STOP, R(1), None, Some(BasePrice(MainSymbol)))
        : side \in {BUY, SELL} }
    \cup { Args(MainSymbol, BUY, STOP, R(1), None, None) }

\* PaperTradingEngine(): the constructor's defaults
SessionInit ==
    /\ Init
    /\ initial_balance = R(10000)
    /\ commission_rate = Norm(1, 1000)

SessionNext ==
    \/ \E a \in SessionOrderArgs : PlaceOrderExecute(a)
    \* the trade log stays writable throughout the session
    \/ \E log_ok \in {TRUE} : PlaceOrderReturn(log_ok)
    \/ \E order_id \in CancelIds : CancelOrder(order_id)
    \/ GetAccountSummary
    \/ \E limit \in Limits : GetTradeHistory(limit)
    \/ Tick

SessionSpec == SessionInit /\ [][SessionNext]_vars

\* ------------------------------------------------------------ a lifecycle
\* A client that leaves LIMIT and STOP orders resting and goes on using the
\* engine: at a price of 98 the STOP BUY and the LIMIT SELL at 100 rest, at
\* 102 the LIMIT BUY and the STOP SELL do; later orders fill, rest or are
\* rejected, on the same symbol and on another.
LifecycleOrderArgs ==
    { Args(MainSymbol, side, LIMIT, R(1), Some(BasePrice(MainSymbol)), None)
        : side \in {BUY, SELL} }
    \cup { Args(MainSymbol, side, STOP, R(1), None, Some(BasePrice(MainSymbol)))
        : side \in {BUY, SELL} }
    \cup { Args(MainSymbol, BUY, STOP, R(1), None, None) }
    \cup { Args(sym, BUY, MARKET, R(1), None, None) : sym \in Symbols }

\* the ids of the first two orders
LifecycleCancelIds == {FormatOrderId(1), FormatOrderId(2)}

LifecycleNext ==
    \/ \E a \in LifecycleOrderArgs : PlaceOrderExecute(a)
    \/ \E log_ok \in {TRUE} : PlaceOrderReturn(log_ok)
    \/ \E order_id \in LifecycleCancelIds : CancelOrder(order_id)
    \/ GetAccountSummary
    \/ \E limit \in {1} : GetTradeHistory(limit)
    \/ Start
    \/ Stop

LifecycleSpec == SessionInit /\ [][LifecycleNext]_vars

\* ------------------------------------------------------------ floats
\* A client that sends MARKET orders for tenths of a unit.  0.1, 0.2 and 0.3
\* are not floats, and (0.1 * p + 0.2 * p) / (0.1 + 0.2) is not p: the
\* entry price of a Position built from two fills is off by round_off.
FloatOrderArgs ==
    { Args(MainSymbol, BUY, MARKET, q, None, None) : q \in {Norm(1, 10), Norm(2, 10)} }
    \cup { Args(MainSymbol, SELL, MARKET, q, None, None) : q \in {Norm(1, 10), Norm(3, 10)} }

FloatInit ==
    /\ initial_balance = R(10000)
    /\ commission_rate = Norm(1, 1000)
    /\ now = 0
    /\ account = CreateInitialAccount(initial_balance, now)
    /\ order_counter = 0
    /\ is_running = FALSE
    /\ price_cache = [s \in Symbols |-> None]
    /\ log_file = <<>>
    /\ pc = "idle"
    /\ order = NoOrder
    /\ raised = NoExc
    /\ ret = [op |-> "init", args |-> <<>>, val |-> <<>>]
    /\ round_off \in RoundOffs
    /\ threads = NoThreads

\* at most MaxFloatOrders calls in one behaviour
FloatPlaceOrder(a) ==
    /\ order_counter < MaxFloatOrders
    /\ PlaceOrderCall(a)

FloatNext ==
    \/ \E a \in FloatOrderArgs : FloatPlaceOrder(a)
    \/ \E log_ok \in {TRUE} : PlaceOrderReturn(log_ok)
    \/ GetAccountSummary

FloatSpec == FloatInit /\ [][FloatNext]_vars

\* ------------------------------------------------------------ threads
\* Callers that share one engine and call place_order once each, with a
\* MARKET order on one symbol.  Nothing in place_order takes a lock, so a
\* call is a sequence of steps that other calls' steps fall between.  The
\* steps are cut at the reads and writes of order_counter, balance and
\* total_trades: `x += 1` and `x -= cost` are a load and a store, and the
\* f-string of _generate_order_id reads order_counter again.  The code
\* between two cuts runs with the step that follows it, the code after the
\* last cut with the last step.
Threads == 1 .. MaxThreads

\* the callers take turns: one buys a unit, the next sells two
ConcurrentOrderArgs(t) ==
    IF t % 2 = 1
    THEN Args(MainSymbol, BUY, MARKET, R(1), None, None)
    ELSE Args(MainSymbol, SELL, MARKET, R(2), None, None)

\* a caller before its call: its arguments, the values it has loaded, its
\* local order, and whether no other call has run beside its own
Caller(a) ==
    [ pc |-> "start", args |-> a, counter |-> 0, balance |-> Zero,
      total_trades |-> 0, order |-> NoOrder, alone |-> TRUE ]

Inside(t) == threads[t].pc \notin {"start", "done"}

\* thread t takes a step that leaves it as `me`: it and every call then in
\* progress have run beside each other
Step(t, me) ==
    LET beside == {u \in Threads \ {t} : Inside(u)}
    IN  threads' = [u \in Threads |->
                      IF u = t THEN [me EXCEPT !.alone = @ /\ beside = {}]
                      ELSE IF u \in beside THEN [threads[u] EXCEPT !.alone = FALSE]
                      ELSE threads[u]]

ConcurrentInit ==
    /\ initial_balance = R(10000)
    /\ commission_rate = Norm(1, 1000)
    /\ now = 0
    /\ account = CreateInitialAccount(initial_balance, now)
    /\ order_counter = 0
    /\ is_running = FALSE
    /\ price_cache = [s \in Symbols |-> None]
    /\ log_file = <<>>
    /\ pc = "idle"
    /\ order = NoOrder
    /\ raised = NoExc
    /\ ret = [op |-> "init", args |-> <<>>, val |-> <<>>]
    /\ round_off = Zero
    /\ threads = [t \in Threads |-> Caller(ConcurrentOrderArgs(t))]

\* _generate_order_id: self.order_counter += 1, the load
LoadCounter(t) ==
    /\ threads[t].pc = "start"
    /\ Step(t, [threads[t] EXCEPT !.pc = "increment", !.counter = order_counter])
    /\ UNCHANGED <<initial_balance, commission_rate, account, order_counter, is_running,
                   price_cache, log_file, now, pc, order, raised, ret, round_off>>

\* _generate_order_id: self.order_counter += 1, the store
StoreCounter(t) ==
    /\ threads[t].pc = "increment"
    /\ order_counter' = threads[t].counter + 1
    /\ Step(t, [threads[t] EXCEPT !.pc = "format", !.counter = 0])
    /\ UNCHANGED <<initial_balance, commission_rate, account, is_running,
                   price_cache, log_file, now, pc, order, raised, ret, round_off>>

\* the id formatted from order_counter as it is now, _get_current_price, the
\* PaperOrder, and the order's own fields that _fill_order sets
CreateOrder(t) ==
    /\ threads[t].pc = "format"
    /\ \E current_price \in CurrentPrices(price_cache, threads[t].args.symbol) :
         LET a == threads[t].args
             o == NewOrder(FormatOrderId(order_counter), a,
                           OrderPrice(a.order_type, a.price, a.stop_price, current_price))
             filled == [o EXCEPT !.commission = CalculateCommission(o.quantity, current_price),
                                 !.status = FILLED,
                                 !.filled_price = Some(current_price),
                                 !.filled_quantity = Some(o.quantity)]
         IN  /\ price_cache' = [price_cache EXCEPT ![a.symbol] = Some(current_price)]
             /\ Step(t, [threads[t] EXCEPT !.pc = "fill", !.order = filled])
    /\ UNCHANGED <<initial_balance, commission_rate, account, order_counter, is_running,
                   log_file, now, pc, order, raised, ret, round_off>>

\* _update_position, then self.account.balance -= cost (+= proceeds), the load
LoadBalance(t) ==
    /\ threads[t].pc = "fill"
    /\ \E updated \in {UpdatePosition(account, threads[t].order,
                                      threads[t].order.filled_price[1])} :
         /\ updated.raised = NoExc
         /\ account' = updated.account
         /\ Step(t, [threads[t] EXCEPT !.pc = "pay", !.balance = updated.account.balance])
    /\ UNCHANGED <<initial_balance, commission_rate, order_counter, is_running,
                   price_cache, log_file, now, pc, order, raised, ret, round_off>>

\* self.account.balance -= cost (+= proceeds), the store
StoreBalance(t) ==
    /\ threads[t].pc = "pay"
    /\ LET o == threads[t].order
           loaded == [account EXCEPT !.balance = threads[t].balance]
       IN  account' = [account EXCEPT !.balance =
                          UpdateBalance(loaded, o, o.filled_price[1], o.commission).balance]
    /\ Step(t, [threads[t] EXCEPT !.pc = "record", !.balance = Zero])
    /\ UNCHANGED <<initial_balance, commission_rate, order_counter, is_running,
                   price_cache, log_file, now, pc, order, raised, ret, round_off>>

\* trade_history.append(trade), then self.account.total_trades += 1, the load
LoadTotalTrades(t) ==
    /\ threads[t].pc = "record"
    /\ LET o == threads[t].order
       IN  account' = [account EXCEPT !.trade_history =
                          Append(@, TradeRecord(o, o.filled_price[1], o.commission))]
    /\ Step(t, [threads[t] EXCEPT !.pc = "count", !.total_trades = account.total_trades])
    /\ UNCHANGED <<initial_balance, commission_rate, order_counter, is_running,
                   price_cache, log_file, now, pc, order, raised, ret, round_off>>

\* self.account.total_trades += 1, the store, then _update_account_equity
\* and the rest of place_order: orders.append(order), _log_order, return
StoreTotalTrades(t) ==
    /\ threads[t].pc = "count"
    /\ \E updated \in {UpdateAccountEquity(
                          [account EXCEPT !.total_trades = threads[t].total_trades + 1],
                          price_cache)} :
         account' = [updated EXCEPT !.orders = Append(@, threads[t].order)]
    /\ log_file' = Append(log_file, LogEntry(threads[t].order))
    /\ Step(t, [threads[t] EXCEPT !.pc = "done", !.total_trades = 0])
    /\ UNCHANGED <<initial_balance, commission_rate, order_counter, is_running,
                   price_cache, now, pc, order, raised, ret, round_off>>

ConcurrentNext ==
    \E t \in Threads :
        \/ LoadCounter(t)
        \/ StoreCounter(t)
        \/ CreateOrder(t)
        \/ LoadBalance(t)
        \/ StoreBalance(t)
        \/ LoadTotalTrades(t)
        \/ StoreTotalTrades(t)

ConcurrentSpec == ConcurrentInit /\ [][ConcurrentNext]_vars

\* ------------------------------------------------------------ properties
\* the cash a trade-history record moves: -(q*p + q*p*rate) for a BUY fill,
\* +(q*p - q*p*rate) for a SELL fill
CashFlow(t) ==
    LET notional == RMul(t.quantity, t.price)
        commission == RMul(notional, commission_rate)
    IN  IF t.side = BUY THEN RNeg(RAdd(notional, commission))
        ELSE RSub(notional, commission)

RECURSIVE SumCashFlow(_)
SumCashFlow(history) ==
    IF history = <<>> THEN Zero
    ELSE RAdd(CashFlow(Head(history)), SumCashFlow(Tail(history)))

HasFill(o) == \E i \in DOMAIN account.trade_history : account.trade_history[i].order_id = o.id

\* C1: the cash balance is initial_balance minus (quantity*fill_price +
\* commission) of every BUY fill plus (quantity*fill_price - commission) of
\* every SELL fill, commission = quantity*fill_price*commission_rate; orders
\* that are PENDING or CANCELLED have no fill and contribute nothing.
C1_CashConservation ==
    /\ account.balance = RAdd(initial_balance, SumCashFlow(account.trade_history))
    /\ \A i \in DOMAIN account.orders :
         account.orders[i].status \in {PENDING, CANCELLED} => ~HasFill(account.orders[i])

\* a BUY fill and a SELL fill at a non-zero commission rate
C1_Witness ==
    /\ pc = "idle"
    /\ ~IsZero(commission_rate)
    /\ \E i, j \in DOMAIN account.trade_history :
         /\ account.trade_history[i].side = BUY
         /\ account.trade_history[j].side = SELL
         /\ RGt(account.trade_history[i].quantity, Zero)
         /\ RGt(account.trade_history[j].quantity, Zero)

AllFillsPositive ==
    \A i \in DOMAIN account.trade_history : RGt(account.trade_history[i].quantity, Zero)

\* C2: when every filled quantity is > 0, every Position in account.positions
\* has quantity > 0; a Position whose quantity reaches 0 is removed by that fill.
C2_PositionQuantityPositive ==
    AllFillsPositive =>
        \A s \in DOMAIN account.positions : RGt(account.positions[s].quantity, Zero)

\* a Position closed by a fill of exactly its quantity is gone
C2_Witness ==
    /\ AllFillsPositive
    /\ Len(account.trade_history) = 2
    /\ account.trade_history[1].symbol = account.trade_history[2].symbol
    /\ account.trade_history[1].side # account.trade_history[2].side
    /\ account.trade_history[1].quantity = account.trade_history[2].quantity
    /\ account.trade_history[1].symbol \notin DOMAIN account.positions

\* ---- a fill, seen as a step: the step that appends a trade-history record
FillStep == Len(account'.trade_history) = Len(account.trade_history) + 1
Fill == Last(account'.trade_history)
HadPosition == Fill.symbol \in DOMAIN account.positions
OldPosition == account.positions[Fill.symbol]
HasPosition == Fill.symbol \in DOMAIN account'.positions
NewPositionOf == account'.positions[Fill.symbol]
OpposingFill == FillStep /\ HadPosition /\ OldPosition.side # Fill.side
SameSideFill == FillStep /\ HadPosition /\ OldPosition.side = Fill.side

\* (fill - entry) * quantity for a long, (entry - fill) * quantity for a short
ClaimedPnl(quantity) ==
    IF OldPosition.side = BUY
    THEN RMul(RSub(Fill.price, OldPosition.entry_price), quantity)
    ELSE RMul(RSub(OldPosition.entry_price, Fill.price), quantity)

\* C3: a fill against the Position of its symbol with order quantity >=
\* position quantity realizes PnL over the whole position quantity at the fill
\* price, adds it to total_pnl and removes the old Position; afterwards a
\* Position exists iff order_qty > position_qty, with the order's side,
\* quantity order_qty - position_qty and entry price the fill price.
C3_NettingOnClose ==
    [][ (OpposingFill /\ RGe(Fill.quantity, OldPosition.quantity)) =>
          /\ account'.total_pnl = RAdd(account.total_pnl, ClaimedPnl(OldPosition.quantity))
          /\ HasPosition <=> RGt(Fill.quantity, OldPosition.quantity)
          /\ HasPosition =>
               /\ NewPositionOf.side = Fill.side
               /\ NewPositionOf.quantity = RSub(Fill.quantity, OldPosition.quantity)
               /\ NewPositionOf.entry_price = Fill.price
               /\ NewPositionOf.realized_pnl = Zero
      ]_vars

\* BUY 1 at the limit, then SELL 2 at a lower market price: a realized loss
\* on one unit and a SELL Position of one unit at the market price
C3_Witness ==
    /\ Len(account.trade_history) = 2
    /\ account.trade_history[1].side = BUY
    /\ account.trade_history[1].quantity = R(1)
    /\ account.trade_history[2].side = SELL
    /\ account.trade_history[2].quantity = R(2)
    /\ account.trade_history[1].symbol = MainSymbol
    /\ account.trade_history[2].symbol = MainSymbol
    /\ account.trade_history[1].price # account.trade_history[2].price
    /\ account.total_pnl = RSub(account.trade_history[2].price, account.trade_history[1].price)
    /\ MainSymbol \in DOMAIN account.positions
    /\ account.positions[MainSymbol].side = SELL
    /\ account.positions[MainSymbol].quantity = R(1)
    /\ account.positions[MainSymbol].entry_price = account.trade_history[2].price

\* C4: a fill against the Position of its symbol with order quantity <
\* position quantity realizes PnL over the order quantity only, reduces the
\* Position's quantity by exactly the order quantity and leaves its side and
\* entry price unchanged.
C4_PartialClose ==
    [][ (OpposingFill /\ RLt(Fill.quantity, OldPosition.quantity)) =>
          /\ account'.total_pnl = RAdd(account.total_pnl, ClaimedPnl(Fill.quantity))
          /\ HasPosition
          /\ NewPositionOf.quantity = RSub(OldPosition.quantity, Fill.quantity)
          /\ NewPositionOf.side = OldPosition.side
          /\ NewPositionOf.entry_price = OldPosition.entry_price
      ]_vars

\* BUY 2 at the market, then SELL 1 at a lower limit: one unit is left at the
\* first entry price
C4_Witness ==
    /\ Len(account.trade_history) = 2
    /\ account.trade_history[1].side = BUY
    /\ account.trade_history[1].quantity = R(2)
    /\ account.trade_history[2].side = SELL
    /\ account.trade_history[2].quantity = R(1)
    /\ account.trade_history[1].symbol = MainSymbol
    /\ account.trade_history[2].symbol = MainSymbol
    /\ account.trade_history[1].price # account.trade_history[2].price
    /\ account.total_pnl = RSub(account.trade_history[2].price, account.trade_history[1].price)
    /\ account.positions[MainSymbol].side = BUY
    /\ account.positions[MainSymbol].quantity = R(1)
    /\ account.positions[MainSymbol].entry_price = account.trade_history[1].price

\* C5: a fill on the side of the existing Position makes its quantity
\* old_qty + new_qty and its entry price (old_qty*old_entry +
\* new_qty*fill_price) / (old_qty + new_qty), so that quantity*entry_price is
\* the summed cost; no PnL is realized.
C5_SameSideAdd ==
    [][ SameSideFill =>
          LET cost == RAdd(RMul(OldPosition.quantity, OldPosition.entry_price),
                           RMul(Fill.quantity, Fill.price))
              quantity == RAdd(OldPosition.quantity, Fill.quantity)
          IN  /\ HasPosition
              /\ NewPositionOf.side = OldPosition.side
              /\ NewPositionOf.quantity = quantity
              /\ NewPositionOf.entry_price = RDiv(cost, quantity)
              /\ RMul(NewPositionOf.quantity, NewPositionOf.entry_price) = cost
              /\ account'.total_pnl = account.total_pnl
              /\ NewPositionOf.realized_pnl = OldPosition.realized_pnl
      ]_vars

\* BUY 2 at the market, then BUY 1 at a higher limit: quantity 3 at an entry
\* price strictly between the two fill prices, nearer the first
C5_Witness ==
    /\ Len(account.trade_history) = 2
    /\ account.trade_history[1].side = BUY
    /\ account.trade_history[2].side = BUY
    /\ account.trade_history[1].symbol = MainSymbol
    /\ account.trade_history[2].symbol = MainSymbol
    /\ account.trade_history[1].quantity = R(2)
    /\ account.trade_history[2].quantity = R(1)
    /\ RLt(account.trade_history[1].price, account.trade_history[2].price)
    /\ account.positions[MainSymbol].quantity = R(3)
    /\ account.positions[MainSymbol].entry_price =
         RDiv(RAdd(RMul(R(2), account.trade_history[1].price), account.trade_history[2].price), R(3))
    /\ account.total_pnl = Zero

\* the PnL the fill realizes: over the whole Position when the order covers
\* it, over the order quantity otherwise
ClosingPnl ==
    IF RGe(Fill.quantity, OldPosition.quantity)
    THEN ClaimedPnl(OldPosition.quantity)
    ELSE ClaimedPnl(Fill.quantity)

\* C6: every closing fill (full, partial or flip) increments exactly one of
\* winning_trades / losing_trades by exactly 1: winning_trades and not
\* losing_trades when its realized PnL is positive, losing_trades and not
\* winning_trades when it is negative; a fill that opens a Position or adds to
\* one changes neither counter, and neither does a step that is no fill.
C6_WinLossCount ==
    [][ LET w == account.winning_trades
            l == account.losing_trades
            w2 == account'.winning_trades
            l2 == account'.losing_trades
        IN  IF OpposingFill
            THEN /\ <<w2, l2>> \in {<<w + 1, l>>, <<w, l + 1>>}
                 /\ RGt(ClosingPnl, Zero) => <<w2, l2>> = <<w + 1, l>>
                 /\ RLt(ClosingPnl, Zero) => <<w2, l2>> = <<w, l + 1>>
            ELSE <<w2, l2>> = <<w, l>>
      ]_vars

\* a close at a profit has been counted as a win
C6_Witness ==
    /\ account.winning_trades = 1
    /\ account.losing_trades = 0
    /\ RGt(account.total_pnl, Zero)

\* a close at a loss has been counted as a loss
C6_WitnessLoss ==
    /\ account.winning_trades = 0
    /\ account.losing_trades = 1
    /\ RLt(account.total_pnl, Zero)

\* ---- place_order and cancel_order, seen as steps
ExecuteStep == pc = "idle" /\ pc' = "try"
ReturnStep == pc = "try" /\ pc' = "idle"
\* cancel_order is the one call that starts and ends outside place_order
CancelStep == pc = "idle" /\ pc' = "idle"
Returned == ret.val[1]

InvalidArgs(a) ==
    \/ RLe(a.quantity, Zero)
    \/ a.order_type = LIMIT /\ a.price = None
    \/ a.order_type = STOP /\ a.stop_price = None
    \/ a.order_type \notin {MARKET, LIMIT, STOP}

\* balance, Positions, trade history and counters
Ledger(acct) ==
    <<acct.balance, acct.positions, acct.trade_history, acct.total_trades,
      acct.winning_trades, acct.losing_trades, acct.total_pnl>>

\* C8: an invalid order (quantity <= 0, LIMIT without a price, STOP without a
\* stop price, unknown order type) is rejected by place_order: it is returned
\* REJECTED, never FILLED or PENDING, and changes no balance, Position,
\* trade-history record or counter.
C8_InvalidOrdersRejected ==
    [][ /\ (ExecuteStep /\ InvalidArgs(ret'.args)) => Ledger(account') = Ledger(account)
        /\ (ReturnStep /\ InvalidArgs(ret.args)) =>
              /\ Ledger(account') = Ledger(account)
              /\ ret'.val[1].status = REJECTED
      ]_vars

\* C9: once the status of an Order is FILLED, CANCELLED or REJECTED, no step
\* changes the Order again, the rest of the place_order call that filled it
\* included.
C9_StatusOneWay ==
    [][ /\ \A i \in DOMAIN account.orders :
              account.orders[i].status # PENDING =>
                  account'.orders[i] = account.orders[i]
        /\ (pc = "try" /\ order.status # PENDING) => ret'.val = <<order>>
      ]_vars

\* C10: cancel_order(id) returns true iff an Order with that id is in the
\* order list and PENDING, and then sets exactly that Order's status to
\* CANCELLED; otherwise it returns false and alters no Order; balance,
\* positions, trade history and counters are unchanged in every case.
C10_CancelContract ==
    [][ CancelStep =>
          LET id == ret'.args
              Hit(o) == o.id = id /\ o.status = PENDING
          IN  /\ ret'.op = "cancel_order"
              /\ ret'.val = (\E i \in DOMAIN account.orders : Hit(account.orders[i]))
              /\ DOMAIN account'.orders = DOMAIN account.orders
              /\ \A i \in DOMAIN account.orders :
                   account'.orders[i] =
                     IF Hit(account.orders[i])
                     THEN [account.orders[i] EXCEPT !.status = CANCELLED]
                     ELSE account.orders[i]
              /\ [account' EXCEPT !.orders = account.orders] = account
      ]_vars

\* a PENDING order was cancelled beside a FILLED one, which is untouched
C10_Witness ==
    /\ ret.op = "cancel_order"
    /\ ret.val = TRUE
    /\ Len(account.orders) = 2
    /\ account.orders[1].id = ret.args
    /\ account.orders[1].status = CANCELLED
    /\ account.orders[2].status = FILLED

\* cancel_order returned false for a FILLED order
C10_WitnessRefused ==
    /\ ret.op = "cancel_order"
    /\ ret.val = FALSE
    /\ Len(account.orders) >= 1
    /\ account.orders[1].id = ret.args
    /\ account.orders[1].status = FILLED

\* ---- the query calls, seen as steps
SummaryStep == pc = "idle" /\ pc' = "idle" /\ ret'.op = "get_account_summary" /\ now' = now
HistoryStep == pc = "idle" /\ pc' = "idle" /\ ret'.op = "get_trade_history" /\ now' = now

\* (initial_balance - equity) / initial_balance
DrawdownOf(acct) == RDiv(RSub(initial_balance, acct.equity), initial_balance)

\* C11: max_drawdown never decreases, and after every fill and every
\* get_account_summary it is at least (initial_balance - equity) /
\* initial_balance whenever equity < initial_balance; the reference is the
\* initial balance, not the running peak of equity.
C11_DrawdownMonotone ==
    [][ /\ RGe(account'.max_drawdown, account.max_drawdown)
        /\ ((FillStep \/ SummaryStep) /\ RLt(account'.equity, initial_balance)) =>
              RGe(account'.max_drawdown, DrawdownOf(account'))
      ]_vars

\* equity fell below the initial balance and came part of the way back: the
\* summary read afterwards reports the deeper drawdown
C11_Witness ==
    /\ ret.op = "get_account_summary"
    /\ Len(account.trade_history) = 2
    /\ RLt(account.equity, initial_balance)
    /\ RGt(DrawdownOf(account), Zero)
    /\ RGt(account.max_drawdown, DrawdownOf(account))
    /\ ret.val[1].max_drawdown = account.max_drawdown

\* the price the Price Source gives for a symbol it has priced
SourcePrice(symbol) == price_cache[symbol][1]

\* (current - entry) * quantity for a BUY Position, (entry - current) *
\* quantity for a SELL Position
MarkToSource(symbol) ==
    LET position == account.positions[symbol]
    IN  IF position.side = BUY
        THEN RMul(RSub(SourcePrice(symbol), position.entry_price), position.quantity)
        ELSE RMul(RSub(position.entry_price, SourcePrice(symbol)), position.quantity)

RECURSIVE SumMarkToSource(_)
SumMarkToSource(syms) ==
    IF syms = {} THEN Zero
    ELSE LET s == CHOOSE x \in syms : TRUE
         IN  RAdd(MarkToSource(s), SumMarkToSource(syms \ {s}))

\* C12: between engine operations (after place_order, cancel_order and
\* get_account_summary return) account.equity is the cash balance plus the
\* sum over the open Positions of their unrealized PnL at the Price Source's
\* price: (current - entry) * quantity for a BUY Position, (entry - current) *
\* quantity for a SELL Position.
C12_EquityIsBalancePlusUnrealized ==
    pc = "idle" =>
        account.equity = RAdd(account.balance, SumMarkToSource(DOMAIN account.positions))

\* a short Position whose entry (the limit price) is below the market: equity
\* is below the balance by the unrealized loss
C12_Witness ==
    /\ pc = "idle"
    /\ ret.op \in {"place_order", "get_account_summary"}
    /\ MainSymbol \in DOMAIN account.positions
    /\ account.positions[MainSymbol].side = SELL
    /\ RLt(MarkToSource(MainSymbol), Zero)
    /\ RLt(account.equity, account.balance)

\* the step of place_order in which the Order is filled
OrderFilledStep == ExecuteStep /\ order'.status = FILLED /\ raised' = NoExc

\* C13: total_trades is incremented by exactly 1 by every fill (opening,
\* adding, partial close, full close or flip) and by nothing else: a
\* place_order that leaves the Order PENDING or REJECTED without a fill,
\* cancel_order, get_account_summary and get_trade_history leave it
\* unchanged; total_trades is the number of trade-history records.
C13_TotalTradesCountsFills ==
    [][ /\ account.total_trades = Len(account.trade_history)
        /\ account'.total_trades = Len(account'.trade_history)
        /\ account'.total_trades =
             IF OrderFilledStep THEN account.total_trades + 1 ELSE account.total_trades
      ]_vars

\* a fill was counted, an order left PENDING was not, and the history was read
C13_Witness ==
    /\ ret.op = "get_trade_history"
    /\ account.total_trades = 1
    /\ Len(account.orders) = 2
    /\ \E i \in DOMAIN account.orders : account.orders[i].status = PENDING

\* an opening fill and the fill that closes the Position were both counted
C13_WitnessClose ==
    /\ pc = "idle"
    /\ account.total_trades = 2
    /\ account.losing_trades = 1
    /\ account.positions = EmptyDict

\* an order rejected by an exception was not counted
C13_WitnessRejected ==
    /\ pc = "idle"
    /\ ret.op = "place_order"
    /\ Returned.status = REJECTED
    /\ account.total_trades = 1

\* ---- the crossing rule, on the caller's arguments
\* whether an order with arguments a crosses at price current
Crosses(a, current) ==
    \/ a.order_type = MARKET
    \/ a.order_type = LIMIT /\ a.side = BUY /\ RLe(current, a.price[1])
    \/ a.order_type = LIMIT /\ a.side = SELL /\ RGe(current, a.price[1])
    \/ a.order_type = STOP /\ a.side = BUY /\ RGe(current, a.stop_price[1])
    \/ a.order_type = STOP /\ a.side = SELL /\ RLe(current, a.stop_price[1])

\* the current price place_order has read for the symbol of its order
PriceRead == price_cache'[ret'.args.symbol][1]

\* C14: place_order fills the order within the call iff it crosses at the
\* current price: a MARKET order always, a LIMIT BUY iff current <= limit, a
\* LIMIT SELL iff current >= limit, a STOP BUY iff current >= stop, a STOP
\* SELL iff current <= stop; an order that does not cross is left PENDING.
\* (Orders with valid arguments: quantity > 0 and the price the type needs.)
C14_FillsIffCrosses ==
    [][ (ExecuteStep /\ ~InvalidArgs(ret'.args)) =>
          /\ order'.status = FILLED <=> Crosses(ret'.args, PriceRead)
          /\ ~Crosses(ret'.args, PriceRead) => order'.status = PENDING /\ raised' = NoExc
      ]_vars

\* the price an order with arguments a fills at: the caller's limit price
\* for LIMIT, the current price for MARKET and STOP
FillPriceOf(a, current) == IF a.order_type = LIMIT THEN a.price[1] ELSE current

\* C15: a FILLED Order has filled_quantity equal to the requested quantity
\* and filled_price by its type (current price for MARKET, the caller's limit
\* price for LIMIT, current price for STOP); the trade-history record, the
\* balance and the Position are updated with that price and quantity.
\* (Orders with valid arguments.)
C15_FillPriceAndQuantity ==
    [][ (OrderFilledStep /\ ~InvalidArgs(ret'.args)) =>
          LET a == ret'.args
              fill_price == FillPriceOf(a, PriceRead)
          IN  /\ order'.filled_quantity = Some(a.quantity)
              /\ order'.filled_price = Some(fill_price)
              /\ FillStep
              /\ Fill.quantity = a.quantity
              /\ Fill.price = fill_price
              /\ account'.balance = RAdd(account.balance, CashFlow(Fill))
              /\ ~HadPosition =>
                   /\ HasPosition
                   /\ NewPositionOf.quantity = a.quantity
                   /\ NewPositionOf.entry_price = fill_price
      ]_vars

\* a LIMIT or STOP order, with the price its type needs, that does not cross
Uncrossed(a, current) ==
    /\ \/ a.order_type = LIMIT /\ a.price # None
       \/ a.order_type = STOP /\ a.stop_price # None
    /\ ~Crosses(a, current)

\* C16: a place_order call whose LIMIT or STOP order does not cross returns
\* the Order PENDING with no fill fields set and leaves balance, positions,
\* trade history, the trade counters, total_pnl, equity and max_drawdown
\* unchanged; its only effect on the Account is the Order recorded in the
\* order list.  (A call in which no exception is raised.)
C16_UncrossedLeavesAccount ==
    [][ /\ (ExecuteStep /\ Uncrossed(ret'.args, PriceRead)) =>
              /\ account' = account
              /\ raised' = NoExc
              /\ order'.status = PENDING
              /\ order'.filled_price = None
              /\ order'.filled_quantity = None
        /\ (ReturnStep /\ Uncrossed(ret.args, SourcePrice(ret.args.symbol))
                       /\ ret'.val[1].notes = "") =>
              /\ ret'.val[1].status = PENDING
              /\ ret'.val[1].filled_price = None
              /\ ret'.val[1].filled_quantity = None
              /\ account' = [account EXCEPT !.orders = Append(@, ret'.val[1])]
      ]_vars

\* quantity * fill_price + commission of an order with arguments a
CostOf(a, current) ==
    LET notional == RMul(a.quantity, FillPriceOf(a, current))
    IN  RAdd(notional, RMul(notional, commission_rate))

\* C17: place_order never rejects or withholds a crossing BUY order for lack
\* of funds: a BUY whose cost (quantity * fill_price + commission) exceeds the
\* cash balance is FILLED and leaves the balance negative.
C17_NoFundsCheck ==
    [][ ( /\ ExecuteStep
          /\ ~InvalidArgs(ret'.args)
          /\ ret'.args.side = BUY
          /\ Crosses(ret'.args, PriceRead)
          /\ RGt(CostOf(ret'.args, PriceRead), account.balance) ) =>
              /\ raised' = NoExc
              /\ order'.status = FILLED
              /\ account'.balance = RSub(account.balance, CostOf(ret'.args, PriceRead))
              /\ RLt(account'.balance, Zero)
      ]_vars

\* a BUY of more than the balance covers was returned FILLED and the balance
\* is negative
C17_Witness ==
    /\ pc = "idle"
    /\ ret.op = "place_order"
    /\ ret.args.side = BUY
    /\ Returned.status = FILLED
    /\ RGt(RMul(Returned.quantity, Returned.filled_price[1]), initial_balance)
    /\ RLt(account.balance, Zero)

\* what get_account_summary is to leave alone
SummaryFrame(acct) ==
    <<acct.balance,
      [s \in DOMAIN acct.positions |->
         <<acct.positions[s].quantity, acct.positions[s].entry_price>>],
      acct.orders, acct.trade_history, acct.total_trades, acct.winning_trades,
      acct.losing_trades, acct.total_pnl>>

\* C18: get_account_summary called twice in a row, with no place_order or
\* cancel_order in between, returns identical values for every field of the
\* summary; neither call changes balance, position quantities or entry
\* prices, the order list, the trade history, the trade counters or total_pnl.
C18_SummaryIdempotent ==
    [][ SummaryStep =>
          /\ SummaryFrame(account') = SummaryFrame(account)
          /\ ret.op = "get_account_summary" => ret'.val = ret.val
      ]_vars

Min(i, j) == IF i < j THEN i ELSE j

\* the last k elements of s, in their order
LastRecords(s, k) == SubSeq(s, Len(s) - k + 1, Len(s))

\* C19: for a limit N >= 0 and a trade history of length L,
\* get_trade_history(N) returns the last min(N, L) records in the order of
\* their fills (N = 0 returns no records) and does not modify the history.
C19_TradeHistoryTail ==
    [][ (HistoryStep /\ ret'.args >= 0) =>
          /\ ret'.val = LastRecords(account.trade_history,
                                    Min(ret'.args, Len(account.trade_history)))
          /\ account' = account
      ]_vars

\* the number a sequence of decimal digits writes
RECURSIVE ParseDigits(_)
ParseDigits(ds) ==
    IF ds = <<>> THEN 0 ELSE 10 * ParseDigits(SubSeq(ds, 1, Len(ds) - 1)) + Last(ds)

\* the number of an Order id: what follows "PAPER_"
IdNumber(id) == ParseDigits(Tail(id))

\* C20: every place_order call, whatever its outcome (FILLED, PENDING or
\* REJECTED), receives an Order id whose number is strictly greater than that
\* of every id issued before; no two Orders share an id.
C20_OrderIdsIncrease ==
    [][ /\ ExecuteStep =>
              /\ IdNumber(order'.id) = order_counter'
              /\ IdNumber(order'.id) > order_counter
              /\ \A i \in DOMAIN account.orders :
                   IdNumber(order'.id) > IdNumber(account.orders[i].id)
              /\ ret.op = "place_order" => IdNumber(order'.id) > IdNumber(ret.val[1].id)
        /\ ReturnStep => ret'.val[1].id = order.id
        /\ \A i, j \in DOMAIN account'.orders :
              /\ IdNumber(account'.orders[i].id) <= order_counter'
              /\ i < j => IdNumber(account'.orders[i].id) < IdNumber(account'.orders[j].id)
      ]_vars

\* the first order was rejected by an exception and is not in the order
\* list; the next one, FILLED, has the number 2
C20_Witness ==
    /\ pc = "idle"
    /\ ret.op = "place_order"
    /\ Returned.status = FILLED
    /\ IdNumber(Returned.id) = 2
    /\ Len(account.orders) = 1

\* a PENDING order and a REJECTED one after it
C20_WitnessPending ==
    /\ pc = "idle"
    /\ ret.op = "place_order"
    /\ Returned.status = REJECTED
    /\ IdNumber(Returned.id) = 2
    /\ Len(account.orders) >= 1
    /\ account.orders[1].status = PENDING
    /\ IdNumber(account.orders[1].id) = 1

\* C21: the order list holds every Order ever placed: the Order place_order
\* returns, whatever its status (FILLED, PENDING or REJECTED), is an element
\* of account.orders after the call, and no Order is ever removed.
C21_OrderListComplete ==
    [][ /\ ReturnStep => \E i \in DOMAIN account'.orders : account'.orders[i] = ret'.val[1]
        /\ Len(account'.orders) >= Len(account.orders)
        /\ \A i \in DOMAIN account.orders : account'.orders[i].id = account.orders[i].id
      ]_vars

\* C22: every place_order call appends exactly one record to the trade log,
\* whose status is the status of the returned Order (FILLED, PENDING or
\* REJECTED); records are only appended, never rewritten.
C22_OneLogRecordPerOrder ==
    [][ /\ ReturnStep =>
              /\ Len(log_file') = Len(log_file) + 1
              /\ Last(log_file').order_id = ret'.val[1].id
              /\ Last(log_file').status = ret'.val[1].status
        /\ Len(log_file') >= Len(log_file)
        /\ \A i \in DOMAIN log_file : log_file'[i] = log_file[i]
      ]_vars

\* the try block has filled the Order and the append to the log then fails
LogFailsAfterFill ==
    /\ ReturnStep
    /\ raised = NoExc
    /\ order.status = FILLED
    /\ log_file' = log_file

\* C23: a failure of the trade-log append does not change the outcome of an
\* order: when it fails after a fill, the fill's changes to balance,
\* positions, trade history and counters stay and the returned Order is
\* still FILLED.
C23_LogFailureKeepsOutcome ==
    [][ LogFailsAfterFill =>
          /\ Ledger(account') = Ledger(account)
          /\ HasFill(order)
          /\ ret'.val[1].status = FILLED
      ]_vars

\* the first part of C23 alone: the fill stays in the Account
C23_FillIsKept ==
    [][ LogFailsAfterFill => Ledger(account') = Ledger(account) /\ HasFill(order) ]_vars

\* the order type of the Order a trade-history record belongs to
OrderTypeOf(acct, t) ==
    LET i == CHOOSE k \in DOMAIN acct.orders : acct.orders[k].id = t.order_id
    IN  acct.orders[i].order_type

Listed(acct, t) == \E k \in DOMAIN acct.orders : acct.orders[k].id = t.order_id

\* C25: once the Price Source has returned a price for a symbol, every later
\* price read for that symbol returns the same value for the lifetime of the
\* engine; all MARKET fills of one symbol happen at one and the same price.
C25_PriceIsCached ==
    [][ /\ \A s \in Symbols : price_cache[s] # None => price_cache'[s] = price_cache[s]
        /\ (ExecuteStep /\ price_cache[ret'.args.symbol] # None /\ ret'.args.order_type = MARKET) =>
              order'.price = price_cache[ret'.args.symbol]
        /\ \A i, j \in DOMAIN account'.trade_history :
              LET t == account'.trade_history[i]
                  u == account'.trade_history[j]
              IN  ( /\ t.symbol = u.symbol
                    /\ Listed(account', t) /\ OrderTypeOf(account', t) = MARKET
                    /\ Listed(account', u) /\ OrderTypeOf(account', u) = MARKET ) =>
                        t.price = u.price
      ]_vars

\* two MARKET fills of one symbol, both at the price of the first request
C25_Witness ==
    /\ pc = "idle"
    /\ Len(account.trade_history) = 2
    /\ Len(account.orders) = 2
    /\ account.orders[1].order_type = MARKET
    /\ account.orders[2].order_type = MARKET
    /\ account.trade_history[1].symbol = account.trade_history[2].symbol
    /\ account.trade_history[1].price = account.trade_history[2].price
    /\ price_cache[account.trade_history[1].symbol] = Some(account.trade_history[1].price)

\* +quantity for a BUY, -quantity for a SELL
Signed(side, quantity) == IF side = BUY THEN quantity ELSE RNeg(quantity)

\* the signed open position of a symbol: 0 when it has no Position
SignedPosition(symbol) ==
    IF symbol \in DOMAIN account.positions
    THEN Signed(account.positions[symbol].side, account.positions[symbol].quantity)
    ELSE Zero

\* the signed quantities of the symbol's trade-history records, summed
RECURSIVE SumSignedFills(_, _)
SumSignedFills(history, symbol) ==
    IF history = <<>> THEN Zero
    ELSE RAdd(IF Head(history).symbol = symbol
              THEN Signed(Head(history).side, Head(history).quantity)
              ELSE Zero,
              SumSignedFills(Tail(history), symbol))

\* C27: after any sequence of place_order calls with quantities > 0, the
\* signed open position of every symbol (+quantity for a BUY Position,
\* -quantity for a SELL Position, 0 without a Position) is the sum over the
\* symbol's trade-history records of +quantity per BUY fill and -quantity per
\* SELL fill.
C27_NetPosition ==
    AllFillsPositive =>
        \A s \in Symbols : SignedPosition(s) = SumSignedFills(account.trade_history, s)

\* BUY 1 then SELL 2 of one symbol: the flip leaves a short of 1
C27_Witness ==
    /\ pc = "idle"
    /\ AllFillsPositive
    /\ Len(account.trade_history) = 2
    /\ account.trade_history[1].symbol = MainSymbol
    /\ account.trade_history[2].symbol = MainSymbol
    /\ account.trade_history[1].side = BUY
    /\ account.trade_history[2].side = SELL
    /\ account.trade_history[2].quantity = R(2)
    /\ SignedPosition(MainSymbol) = R(-1)

RECURSIVE SumCommissions(_)
SumCommissions(history) ==
    IF history = <<>> THEN Zero
    ELSE RAdd(Head(history).commission, SumCommissions(Tail(history)))

\* quantity * entry_price of the open Positions: BUY Positions count
\* negative (cash paid out), SELL Positions positive (cash taken in)
RECURSIVE SumPositionCash(_, _)
SumPositionCash(positions, syms) ==
    IF syms = {} THEN Zero
    ELSE LET s == CHOOSE x \in syms : TRUE
             cost == RMul(positions[s].quantity, positions[s].entry_price)
         IN  RAdd(IF positions[s].side = BUY THEN RNeg(cost) ELSE cost,
                  SumPositionCash(positions, syms \ {s}))

\* C28: after any sequence of fills, balance = initial_balance + total_pnl
\* - (commissions of all fills) - (quantity * entry_price of the BUY
\* Positions) + (quantity * entry_price of the SELL Positions); with no
\* Position open, balance = initial_balance + total_pnl - (commissions).
C28_AccountingIdentity ==
    /\ account.balance =
         RAdd(RSub(RAdd(initial_balance, account.total_pnl),
                   SumCommissions(account.trade_history)),
              SumPositionCash(account.positions, DOMAIN account.positions))
    /\ account.positions = EmptyDict =>
         account.balance = RSub(RAdd(initial_balance, account.total_pnl),
                                SumCommissions(account.trade_history))

\* a short opened at the limit price and closed at the higher market price,
\* at a non-zero commission rate: a realized loss and no Position left
C28_Witness ==
    /\ pc = "idle"
    /\ ~IsZero(commission_rate)
    /\ Len(account.trade_history) = 2
    /\ AllFillsPositive
    /\ account.trade_history[1].side = SELL
    /\ account.positions = EmptyDict
    /\ RLt(account.total_pnl, Zero)

\* a long and a short open at once, in two symbols
C28_WitnessOpen ==
    /\ pc = "idle"
    /\ AllFillsPositive
    /\ \E s, t \in DOMAIN account.positions :
         account.positions[s].side = BUY /\ account.positions[t].side = SELL

\* an Account that has seen no fill
Fresh(acct) ==
    /\ acct.trade_history = <<>>
    /\ acct.positions = EmptyDict
    /\ acct.balance = initial_balance
    /\ acct.equity = initial_balance
    /\ IsZero(acct.max_drawdown)
    /\ IsZero(acct.total_pnl)

\* the step in which a MARKET order of positive quantity fills on a fresh Account
FirstMarketFill ==
    /\ ExecuteStep
    /\ Fresh(account)
    /\ FillStep
    /\ order'.order_type = MARKET
    /\ RGt(Fill.quantity, Zero)

Notional == RMul(Fill.quantity, Fill.price)

\* C30: equity counts only unrealized PnL, not the value of held Positions:
\* a MARKET BUY of notional N on a fresh account leaves equity =
\* initial_balance - N - commission and max_drawdown >= N / initial_balance;
\* a MARKET SELL that opens a short leaves equity = initial_balance + N -
\* commission, above initial_balance.
C30_EquityIgnoresHoldings ==
    [][ FirstMarketFill =>
          /\ Fill.side = BUY =>
               /\ account'.equity = RSub(RSub(initial_balance, Notional), Fill.commission)
               /\ RGe(account'.max_drawdown, RDiv(Notional, initial_balance))
               /\ RLt(account'.equity, initial_balance)
          /\ Fill.side = SELL =>
               /\ account'.equity = RSub(RAdd(initial_balance, Notional), Fill.commission)
               /\ RGt(account'.equity, initial_balance)
               /\ IsZero(account'.max_drawdown)
      ]_vars

\* a MARKET BUY was the first fill, at a non-zero commission rate
C30_Witness ==
    /\ pc = "try"
    /\ ~IsZero(commission_rate)
    /\ order.order_type = MARKET
    /\ order.side = BUY
    /\ Len(account.trade_history) = 1
    /\ RGt(account.trade_history[1].quantity, Zero)
    /\ account.trade_history[1].order_id = order.id
    /\ RGt(account.max_drawdown, Zero)

\* a MARKET SELL was the first fill and opened a short
C30_WitnessShort ==
    /\ pc = "try"
    /\ order.order_type = MARKET
    /\ order.side = SELL
    /\ Len(account.trade_history) = 1
    /\ RGt(account.trade_history[1].quantity, Zero)
    /\ \E s \in DOMAIN account.positions : account.positions[s].side = SELL
    /\ RGt(account.equity, initial_balance)

\* C24: an Order that place_order returned as PENDING stays PENDING through
\* every later operation (place_order on the same or another symbol,
\* get_account_summary, get_trade_history, start, stop, cancel_order with
\* another id); only cancel_order with its own id changes it, to CANCELLED.
C24_PendingUntilCancelled ==
    [][ \A i \in DOMAIN account.orders :
          account.orders[i].status = PENDING =>
            /\ i \in DOMAIN account'.orders
            /\ \/ account'.orders[i] = account.orders[i]
               \/ /\ ret'.op = "cancel_order"
                  /\ ret'.args = account.orders[i].id
                  /\ ret'.val = TRUE
                  /\ account'.orders[i] = [account.orders[i] EXCEPT !.status = CANCELLED]
      ]_vars

\* the first order rests while a later order on the same symbol has filled
C24_Witness ==
    /\ pc = "idle"
    /\ Len(account.orders) = 2
    /\ account.orders[1].status = PENDING
    /\ account.orders[2].status = FILLED
    /\ account.orders[2].symbol = account.orders[1].symbol

\* the first order rests after the second, resting too, was cancelled
C24_WitnessOtherCancelled ==
    /\ ret.op = "cancel_order"
    /\ ret.val = TRUE
    /\ Len(account.orders) = 2
    /\ account.orders[1].status = PENDING
    /\ account.orders[2].status = CANCELLED

\* the first order rests while the engine was started
C24_WitnessStarted ==
    /\ ret.op = "start"
    /\ is_running
    /\ Len(account.orders) >= 1
    /\ account.orders[1].status = PENDING

\* every Order placed so far, and the one being placed, is a MARKET order
OnlyMarketOrders ==
    /\ \A i \in DOMAIN account.orders : account.orders[i].order_type = MARKET
    /\ order' # NoOrder => order'.order_type = MARKET

\* C29: in a sequence of MARKET orders only, every closing fill has
\* realized PnL exactly 0 and counts as a loss: total_pnl stays 0,
\* winning_trades stays 0 and losing_trades goes up by one with each
\* closing fill (and with no other fill).
C29_MarketClosesAreLosses ==
    [][ (OnlyMarketOrders /\ AllFillsPositive /\ FillStep) =>
          /\ IsZero(account'.total_pnl)
          /\ account'.winning_trades = 0
          /\ account'.losing_trades =
               account.losing_trades + (IF OpposingFill THEN 1 ELSE 0)
      ]_vars

\* a Position built from two fills was closed at the price it was bought
\* at, and the close is counted as a win
C29_RoundedWin ==
    /\ pc = "idle"
    /\ round_off = RNeg(Ulp)
    /\ Len(account.trade_history) = 3
    /\ account.trade_history[1].side = BUY
    /\ account.trade_history[1].quantity = Norm(1, 10)
    /\ account.trade_history[2].side = BUY
    /\ account.trade_history[2].quantity = Norm(2, 10)
    /\ account.trade_history[3].side = SELL
    /\ account.trade_history[3].quantity = Norm(3, 10)
    /\ account.trade_history[3].price = account.trade_history[1].price
    /\ account.trade_history[3].price = account.trade_history[2].price
    /\ account.winning_trades = 1
    /\ account.losing_trades = 0
    /\ RGt(account.total_pnl, Zero)

\* every caller has its Order back
AllDone == \A t \in Threads : threads[t].pc = "done"

\* the calls ran one after the other
Serial == \A t \in Threads : threads[t].alone

DuplicateId ==
    \E t, u \in Threads : t # u /\ threads[t].order.id = threads[u].order.id

LostBalanceUpdate ==
    account.balance # RAdd(initial_balance, SumCashFlow(account.trade_history))

LostTradeCount == account.total_trades # Len(account.trade_history)

\* C26: place_order takes no lock.  Calls that run one after the other
\* always leave distinct ids, a balance that carries every fill's cash flow
\* and a total_trades that counts every fill; calls whose reads and writes
\* interleave can leave two Orders with one id, a lost update of the balance
\* or a lost update of total_trades.
C26_OnlyInterleavingsRace ==
    AllDone =>
      /\ Len(account.trade_history) = MaxThreads
      /\ Len(account.orders) = MaxThreads
      /\ (DuplicateId \/ LostBalanceUpdate \/ LostTradeCount) => ~Serial
      /\ Serial => order_counter = MaxThreads

\* interleaved calls ended with a balance that misses a fill's cash flow
C26_Witness == AllDone /\ ~Serial /\ LostBalanceUpdate

\* interleaved calls ended with two Orders of one id
C26_WitnessDuplicateId == AllDone /\ ~Serial /\ DuplicateId

\* interleaved calls ended with total_trades short of the fills
C26_WitnessLostTrade == AllDone /\ ~Serial /\ LostTradeCount

\* the counter was not lost, and still two Orders have one id: the second
\* caller's store fell between the first caller's store and its f-string
C26_WitnessReread == AllDone /\ DuplicateId /\ order_counter = MaxThreads

\* calls that ran one after the other
C26_WitnessSerial == AllDone /\ Serial /\ ~DuplicateId /\ ~LostBalanceUpdate /\ ~LostTradeCount

====
